---- MODULE Spec2Model ----
(***************************************************************************)
(* A state-machine model of the LMS application in src/app.py: the five    *)
(* tables (user, course, enrollment, lesson, lesson_file), the upload      *)
(* directory, the per-browser session cookie and the request handlers.     *)
(* Every handler is one action; its response is recorded in resp as the    *)
(* source line of the statement that ended the request (which fixes the    *)
(* redirect target and the flashed message).                               *)
(***************************************************************************)
EXTENDS Integers, Sequences, FiniteSets, TLC

\* ------------------------------------------------------------------ bounds
MaxCourses == 1
MaxEnrollments == 2
MaxLessons == 2
MaxInflight == 2

\* ------------------------------------------------------------ input domains
Clients == {"k1"}
Emails == {"a@x", "b@x", "c@x", "d@x"}
Names == {"n"}
Passwords == {"pw"}
WrongPassword == "bad"
Roles == {"student", "teacher", "admin"}
Methods == {"GET", "POST"}
Titles == {"T1", "T2"}
LessonTitles == {"L"}
Descriptions == {"D"}
Bytes == {"x"}
RawNames == {<<"a">>, <<"/", "a">>, <<"b">>, <<".", ".">>, <<>>}

None == <<>>
Some(x) == <<x>>
Contents == {None, Some(""), Some("C")}

NoFile == [present |-> FALSE, filename |-> <<>>, data |-> ""]
FileInputs ==
    {NoFile} \cup {[present |-> TRUE, filename |-> n, data |-> b] :
                       n \in RawNames, b \in Bytes}

CourseIds == 1 .. MaxCourses
LessonIds == 1 .. MaxLessons

VARIABLES users, session, courses, enrollments, lessons, lesson_files, uploads,
          inflight, resp

db == <<users, courses, enrollments, lessons, lesson_files>>
vars == <<users, session, courses, enrollments, lessons, lesson_files, uploads,
          inflight, resp>>

\* ------------------------------------------------------------------ helpers
Max(S) == CHOOSE x \in S : \A y \in S : y <= x

\* SQLite INTEGER PRIMARY KEY without AUTOINCREMENT: one more than the largest
\* id in the table, so the id of a deleted last row is handed out again.
NextId(table) == IF table = {} THEN 1 ELSE Max({r.id : r \in table}) + 1

RECURSIVE RowsById(_)
RowsById(S) ==
    IF S = {} THEN <<>>
    ELSE LET r == CHOOSE x \in S : \A y \in S : x.id <= y.id
         IN <<r>> \o RowsById(S \ {r})

Get(table, id) == CHOOSE r \in table : r.id = id
Exists(table, id) == \E r \in table : r.id = id

\* A response: the source line that ended the request and its HTTP status, what
\* the handler passed to the template (enrolled, students) or sent as the body
\* (data), and the files the request removed from the upload directory.
R(line, status) ==
    [line |-> line, status |-> status, enrolled |-> FALSE, students |-> <<>>,
     data |-> "", removed |-> {}]

EmptySession == [user_id |-> 0, user_name |-> "", user_role |-> ""]

\* werkzeug.security: the hash verifies exactly the password it was made from.
generate_password_hash(p) == <<"pbkdf2", p>>
check_password_hash(h, p) == h = generate_password_hash(p)

\* werkzeug.utils.secure_filename on names over the characters a b . / and
\* blank: path separators become blanks, blank-separated parts are joined with
\* "_", and leading and trailing "." and "_" are stripped.
ReplaceSep(s) == [i \in 1 .. Len(s) |-> IF s[i] = "/" THEN " " ELSE s[i]]

RECURSIVE JoinParts(_, _)
JoinParts(s, started) ==
    IF s = <<>> THEN <<>>
    ELSE IF Head(s) = " "
         THEN IF started /\ \E i \in 1 .. Len(Tail(s)) : Tail(s)[i] # " "
              THEN IF Head(Tail(s)) = " " THEN JoinParts(Tail(s), started)
                   ELSE <<"_">> \o JoinParts(Tail(s), started)
              ELSE JoinParts(Tail(s), started)
         ELSE <<Head(s)>> \o JoinParts(Tail(s), TRUE)

RECURSIVE StripLeft(_)
StripLeft(s) ==
    IF s # <<>> /\ Head(s) \in {".", "_"} THEN StripLeft(Tail(s)) ELSE s

RECURSIVE StripRight(_)
StripRight(s) ==
    IF s # <<>> /\ s[Len(s)] \in {".", "_"}
    THEN StripRight(SubSeq(s, 1, Len(s) - 1)) ELSE s

secure_filename(s) == StripRight(StripLeft(JoinParts(ReplaceSep(s), FALSE)))

StoredNames == {secure_filename(n) : n \in RawNames} \ {<<>>}

\* ----------------------------------------------------------- initial state
Init ==
    /\ users = {}
    /\ session = [k \in Clients |-> EmptySession]
    /\ courses = {}
    /\ enrollments = {}
    /\ lessons = {}
    /\ lesson_files = {}
    /\ uploads = {}
    /\ inflight = {}
    /\ resp = R(113, 200)

\* A request that answers without touching any state.
Reply(r) == resp' = r /\ UNCHANGED <<db, session, uploads, inflight>>

\* ---------------------------------------------------------- auth decorators
login_required(k, f) ==
    IF session[k].user_id = 0 THEN Reply(R(39, 302)) ELSE f

\* teacher_required without the role check of lines 49-51.
teacher_required_any_role(k, f) ==
    IF session[k].user_id = 0 THEN Reply(R(48, 302)) ELSE f

teacher_required(k, f) ==
    IF session[k].user_id = 0 THEN Reply(R(48, 302))
    ELSE IF session[k].user_role # "teacher" THEN Reply(R(51, 302))
    ELSE f

\* ------------------------------------------------------------- auth routes
signup(method, name, email, password, role) ==
    IF method = "POST"
    THEN IF \E u \in users : u.email = email
         THEN Reply(R(121, 302))
         ELSE /\ users' = users \cup
                    {[id |-> NextId(users), name |-> name, email |-> email,
                      password |-> generate_password_hash(password), role |-> role]}
              /\ resp' = R(133, 302)
              /\ UNCHANGED <<session, courses, enrollments, lessons, lesson_files,
                             uploads, inflight>>
    ELSE Reply(R(135, 200))

login(k, method, email, password) ==
    IF method = "POST"
    THEN IF \/ ~ \E u \in users : u.email = email
            \/ ~ check_password_hash((CHOOSE u \in users : u.email = email).password,
                                     password)
         THEN Reply(R(144, 302))
         ELSE LET user == CHOOSE u \in users : u.email = email
              IN /\ session' = [session EXCEPT ![k] =
                        [user_id |-> user.id, user_name |-> user.name,
                         user_role |-> user.role]]
                 /\ resp' = R(150, 302)
                 /\ UNCHANGED <<db, uploads, inflight>>
    ELSE Reply(R(152, 200))

logout(k) ==
    /\ session' = [session EXCEPT ![k] = EmptySession]
    /\ resp' = R(158, 302)
    /\ UNCHANGED <<db, uploads, inflight>>

\* ------------------------------------------------------------------ courses
create_course(k, method, title, description) ==
    teacher_required(k,
        IF method = "POST"
        THEN /\ NextId(courses) <= MaxCourses
             /\ courses' = courses \cup
                    {[id |-> NextId(courses), title |-> title,
                      description |-> description,
                      teacher_id |-> session[k].user_id]}
             /\ resp' = R(196, 302)
             /\ UNCHANGED <<users, session, enrollments, lessons, lesson_files,
                            uploads, inflight>>
        ELSE Reply(R(198, 200)))

edit_course(k, method, course_id, title, description) ==
    teacher_required(k,
        IF ~ Exists(courses, course_id) THEN Reply(R(204, 404))
        ELSE LET course == Get(courses, course_id)
             IN IF course.teacher_id # session[k].user_id THEN Reply(R(208, 302))
                ELSE IF method = "POST"
                THEN /\ courses' = (courses \ {course}) \cup
                            {[course EXCEPT !.title = title,
                                            !.description = description]}
                     /\ resp' = R(214, 302)
                     /\ UNCHANGED <<users, session, enrollments, lessons,
                                    lesson_files, uploads, inflight>>
                ELSE Reply(R(216, 200)))

\* db.session.delete(course): Course.lessons and Course.enrollments are backrefs
\* without a delete cascade, so the unit of work sets course_id of every child
\* row to NULL; both columns are nullable=False, the flush raises
\* IntegrityError and the transaction is rolled back.
delete_course(k, course_id) ==
    teacher_required(k,
        IF ~ Exists(courses, course_id) THEN Reply(R(222, 404))
        ELSE LET course == Get(courses, course_id)
             IN IF course.teacher_id # session[k].user_id THEN Reply(R(226, 302))
                ELSE IF \/ \E l \in lessons : l.course_id = course_id
                        \/ \E e \in enrollments : e.course_id = course_id
                THEN Reply(R(229, 500))
                ELSE /\ courses' = courses \ {course}
                     /\ resp' = R(230, 302)
                     /\ UNCHANGED <<users, session, enrollments, lessons,
                                    lesson_files, uploads, inflight>>)

\* --------------------------------------------------------------- enrollment
enrolled_ids(user_id) == {e.course_id : e \in {x \in enrollments : x.student_id = user_id}}

is_enrolled(user_id, course_id) ==
    \E e \in enrollments : e.student_id = user_id /\ e.course_id = course_id

insert_enrollment(user_id, course_id) ==
    /\ NextId(enrollments) <= MaxEnrollments
    /\ enrollments' = enrollments \cup
           {[id |-> NextId(enrollments), student_id |-> user_id,
             course_id |-> course_id]}

\* enroll without the query of lines 259-262.
enroll_without_query(k, course_id) ==
    login_required(k,
        IF session[k].user_role # "student" THEN Reply(R(257, 302))
        ELSE /\ insert_enrollment(session[k].user_id, course_id)
             /\ resp' = R(268, 302)
             /\ UNCHANGED <<users, session, courses, lessons, lesson_files,
                            uploads, inflight>>)

enroll(k, course_id) ==
    login_required(k,
        IF session[k].user_role # "student" THEN Reply(R(257, 302))
        ELSE IF is_enrolled(session[k].user_id, course_id) THEN Reply(R(262, 302))
        ELSE /\ insert_enrollment(session[k].user_id, course_id)
             /\ resp' = R(268, 302)
             /\ UNCHANGED <<users, session, courses, lessons, lesson_files,
                            uploads, inflight>>)

unenroll(k, course_id) ==
    login_required(k,
        IF session[k].user_role # "student" THEN Reply(R(275, 302))
        ELSE IF ~ is_enrolled(session[k].user_id, course_id) THEN Reply(R(284, 302))
        ELSE LET enrollment ==
                     Head(RowsById({e \in enrollments :
                                      /\ e.student_id = session[k].user_id
                                      /\ e.course_id = course_id}))
             IN /\ enrollments' = enrollments \ {enrollment}
                /\ resp' = R(290, 302)
                /\ UNCHANGED <<users, session, courses, lessons, lesson_files,
                               uploads, inflight>>)

\* ------------------------------------------------------------ course detail
roster(course_id) ==
    LET rows == RowsById({e \in enrollments : e.course_id = course_id})
    IN [i \in 1 .. Len(rows) |-> rows[i].student_id]

course_detail(k, course_id) ==
    login_required(k,
        IF ~ Exists(courses, course_id) THEN Reply(R(300, 404))
        ELSE Reply([R(316, 200) EXCEPT
                 !.enrolled = /\ session[k].user_role = "student"
                              /\ is_enrolled(session[k].user_id, course_id),
                 !.students = IF session[k].user_role = "teacher"
                              THEN roster(course_id) ELSE <<>>]))

\* ------------------------------------------------------ lessons (text + file)
\* Lesson.content is nullable=False: committing a lesson whose content is None
\* raises IntegrityError, and nothing of the request is stored.
add_lesson(k, method, course_id, title, content, file) ==
    teacher_required(k,
        IF ~ Exists(courses, course_id) THEN Reply(R(330, 404))
        ELSE IF Get(courses, course_id).teacher_id # session[k].user_id
        THEN Reply(R(333, 302))
        ELSE IF method # "POST" THEN Reply(R(355, 200))
        ELSE IF content = None THEN Reply(R(342, 500))
        ELSE LET lesson == [id |-> NextId(lessons), title |-> title,
                            content |-> content, course_id |-> course_id]
                 filename == secure_filename(file.filename)
             IN /\ NextId(lessons) <= MaxLessons
                /\ lessons' = lessons \cup {lesson}
                /\ UNCHANGED <<users, session, courses, enrollments, inflight>>
                /\ IF file.present /\ file.filename # <<>>
                   THEN IF filename = <<>>
                        \* file.save on the upload directory itself raises
                        \* after the lesson has been committed
                        THEN /\ resp' = R(347, 500)
                             /\ UNCHANGED <<lesson_files, uploads>>
                        ELSE /\ uploads' = {u \in uploads : u.name # filename} \cup
                                    {[name |-> filename, data |-> file.data]}
                             /\ lesson_files' = lesson_files \cup
                                    {[id |-> NextId(lesson_files),
                                      filename |-> filename,
                                      lesson_id |-> lesson.id]}
                             /\ resp' = R(353, 302)
                   ELSE /\ resp' = R(353, 302)
                        /\ UNCHANGED <<lesson_files, uploads>>)

edit_lesson(k, method, lesson_id, title, content) ==
    teacher_required(k,
        IF ~ Exists(lessons, lesson_id) THEN Reply(R(361, 404))
        ELSE LET lesson == Get(lessons, lesson_id)
             IN IF ~ Exists(courses, lesson.course_id) THEN Reply(R(363, 500))
                ELSE IF Get(courses, lesson.course_id).teacher_id # session[k].user_id
                THEN Reply(R(364, 302))
                ELSE IF method # "POST" THEN Reply(R(372, 200))
                ELSE IF content = None THEN Reply(R(369, 500))
                ELSE /\ lessons' = (lessons \ {lesson}) \cup
                            {[lesson EXCEPT !.title = title, !.content = content]}
                     /\ resp' = R(370, 302)
                     /\ UNCHANGED <<users, session, courses, enrollments,
                                    lesson_files, uploads, inflight>>)

\* delete_lesson without the ownership check of lines 380-382.
delete_lesson_unchecked(k, lesson_id) ==
    teacher_required(k,
        IF ~ Exists(lessons, lesson_id) THEN Reply(R(377, 404))
        ELSE LET lesson == Get(lessons, lesson_id)
                 files == {f \in lesson_files : f.lesson_id = lesson_id}
             IN /\ uploads' = {u \in uploads :
                                 u.name \notin {f.filename : f \in files}}
                /\ lesson_files' = lesson_files \ files
                /\ lessons' = lessons \ {lesson}
                /\ resp' = [R(397, 302) EXCEPT
                       !.removed = {f.filename : f \in files} \cap
                                             {u.name : u \in uploads}]
                /\ UNCHANGED <<users, session, courses, enrollments, inflight>>)

\* delete_lesson without the os.remove loop of lines 387-390.
delete_lesson_rows_only(k, lesson_id) ==
    teacher_required(k,
        IF ~ Exists(lessons, lesson_id) THEN Reply(R(377, 404))
        ELSE LET lesson == Get(lessons, lesson_id)
                 files == {f \in lesson_files : f.lesson_id = lesson_id}
             IN IF Get(courses, lesson.course_id).teacher_id # session[k].user_id
                THEN Reply(R(382, 302))
                ELSE /\ lesson_files' = lesson_files \ files
                     /\ lessons' = lessons \ {lesson}
                     /\ resp' = R(397, 302)
                     /\ UNCHANGED <<users, session, courses, enrollments,
                                    uploads, inflight>>)

delete_lesson(k, lesson_id) ==
    teacher_required(k,
        IF ~ Exists(lessons, lesson_id) THEN Reply(R(377, 404))
        ELSE LET lesson == Get(lessons, lesson_id)
                 files == {f \in lesson_files : f.lesson_id = lesson_id}
             IN IF ~ Exists(courses, lesson.course_id) THEN Reply(R(380, 500))
                ELSE IF Get(courses, lesson.course_id).teacher_id # session[k].user_id
                THEN Reply(R(382, 302))
                ELSE /\ uploads' = {u \in uploads :
                                      u.name \notin {f.filename : f \in files}}
                     /\ lesson_files' = lesson_files \ files
                     /\ lessons' = lessons \ {lesson}
                     /\ resp' = [R(397, 302) EXCEPT
                            !.removed = {f.filename : f \in files} \cap
                                             {u.name : u \in uploads}]
                     /\ UNCHANGED <<users, session, courses, enrollments, inflight>>)

\* ------------------------------------------------------------ file download
\* send_from_directory: the bytes stored under the name, or 404.
send_from_directory(filename) ==
    IF \E u \in uploads : u.name = filename
    THEN [R(407, 200) EXCEPT
              !.data = (CHOOSE u \in uploads : u.name = filename).data]
    ELSE R(407, 404)

uploaded_file(k, filename) ==
    login_required(k, Reply(send_from_directory(filename)))

\* ------------------------------------------- enroll on a threaded server
\* app.run serves each request on its own thread, so between the query of
\* lines 259-261 and the insert and commit of lines 264-267 of one enroll
\* request other requests run.  inflight holds the requests that have passed
\* the query and not yet inserted.
enroll_query(k, course_id) ==
    login_required(k,
        IF session[k].user_role # "student" THEN Reply(R(257, 302))
        ELSE IF is_enrolled(session[k].user_id, course_id) THEN Reply(R(262, 302))
        ELSE /\ NextId(inflight) <= MaxInflight
             /\ inflight' = inflight \cup
                    {[id |-> NextId(inflight), student_id |-> session[k].user_id,
                      course_id |-> course_id]}
             /\ UNCHANGED <<db, session, uploads, resp>>)

enroll_commit(r) ==
    /\ insert_enrollment(r.student_id, r.course_id)
    /\ inflight' = inflight \ {r}
    /\ resp' = R(268, 302)
    /\ UNCHANGED <<users, session, courses, lessons, lesson_files, uploads>>

\* ----------------------------------------------------------------- requests
\* Each request with its inputs drawn from the input domains.  A GET carries no
\* form, so the form fields of a GET are fixed.
Signup ==
    \/ \E n \in Names, e \in Emails, p \in Passwords, r \in Roles :
           signup("POST", n, e, p, r)
    \/ signup("GET", "", "", "", "")
Login ==
    \E k \in Clients :
        \/ \E e \in Emails, p \in Passwords \cup {WrongPassword} :
               login(k, "POST", e, p)
        \/ login(k, "GET", "", "")
Logout == \E k \in Clients : logout(k)
CreateCourse ==
    \E k \in Clients :
        \/ \E t \in Titles, d \in Descriptions : create_course(k, "POST", t, d)
        \/ create_course(k, "GET", "", "")
EditCourse ==
    \E k \in Clients, c \in CourseIds :
        \/ \E t \in Titles, d \in Descriptions : edit_course(k, "POST", c, t, d)
        \/ edit_course(k, "GET", c, "", "")
DeleteCourse == \E k \in Clients, c \in CourseIds : delete_course(k, c)
Enroll == \E k \in Clients, c \in CourseIds : enroll(k, c)
Unenroll == \E k \in Clients, c \in CourseIds : unenroll(k, c)
CourseDetail == \E k \in Clients, c \in CourseIds : course_detail(k, c)
AddLesson ==
    \E k \in Clients, c \in CourseIds :
        \/ \E t \in LessonTitles, x \in Contents, f \in FileInputs :
               add_lesson(k, "POST", c, t, x, f)
        \/ add_lesson(k, "GET", c, "", None, NoFile)
EditLesson ==
    \E k \in Clients, l \in LessonIds :
        \/ \E t \in LessonTitles, x \in Contents : edit_lesson(k, "POST", l, t, x)
        \/ edit_lesson(k, "GET", l, "", None)
DeleteLesson == \E k \in Clients, l \in LessonIds : delete_lesson(k, l)
UploadedFile == \E k \in Clients, n \in StoredNames : uploaded_file(k, n)
EnrollQuery == \E k \in Clients, c \in CourseIds : enroll_query(k, c)
EnrollCommit == \E r \in inflight : enroll_commit(r)

\* ------------------------------------------------------------ specification
\* The whole application, from an empty database.
Next ==
    \/ Signup \/ Login \/ Logout
    \/ CreateCourse \/ EditCourse \/ DeleteCourse
    \/ Enroll \/ Unenroll \/ CourseDetail
    \/ AddLesson \/ EditLesson \/ DeleteLesson \/ UploadedFile

Spec == Init /\ [][Next]_vars

\* The state after two teachers and a student have signed up: three successful
\* signup requests from Init.
Registered ==
    /\ users = {[id |-> 1, name |-> "n", email |-> "a@x",
                 password |-> generate_password_hash("pw"), role |-> "teacher"],
                [id |-> 2, name |-> "n", email |-> "b@x",
                 password |-> generate_password_hash("pw"), role |-> "teacher"],
                [id |-> 3, name |-> "n", email |-> "c@x",
                 password |-> generate_password_hash("pw"), role |-> "student"]}
    /\ session = [k \in Clients |-> EmptySession]
    /\ courses = {}
    /\ enrollments = {}
    /\ lessons = {}
    /\ lesson_files = {}
    /\ uploads = {}
    /\ inflight = {}
    /\ resp = R(133, 302)

\* The state after teacher 1 has logged in, created a course and logged out.
Taught ==
    /\ users = {[id |-> 1, name |-> "n", email |-> "a@x",
                 password |-> generate_password_hash("pw"), role |-> "teacher"],
                [id |-> 2, name |-> "n", email |-> "b@x",
                 password |-> generate_password_hash("pw"), role |-> "teacher"],
                [id |-> 3, name |-> "n", email |-> "c@x",
                 password |-> generate_password_hash("pw"), role |-> "student"]}
    /\ session = [k \in Clients |-> EmptySession]
    /\ courses = {[id |-> 1, title |-> "T1", description |-> "D", teacher_id |-> 1]}
    /\ enrollments = {}
    /\ lessons = {}
    /\ lesson_files = {}
    /\ uploads = {}
    /\ inflight = {}
    /\ resp = R(158, 302)

\* Accounts, course creation and enrollment.
NextAccounts ==
    \/ Signup \/ Login \/ Logout
    \/ CreateCourse \/ Enroll \/ Unenroll

SpecAccounts == Registered /\ [][NextAccounts]_vars

\* Courses and enrollment.
NextCatalog ==
    \/ Signup \/ Login \/ Logout
    \/ CreateCourse \/ EditCourse \/ DeleteCourse
    \/ Enroll \/ Unenroll \/ CourseDetail

SpecCatalog == Registered /\ [][NextCatalog]_vars

\* Every request that changes a course or a lesson, on the course of teacher 1.
NextOwnership ==
    \/ Login \/ Logout
    \/ EditCourse \/ DeleteCourse
    \/ AddLesson \/ EditLesson \/ DeleteLesson

SpecOwnership == Taught /\ [][NextOwnership]_vars

\* Lessons and uploaded files of the course of teacher 1.
NextLessons ==
    \/ Login \/ Logout
    \/ AddLesson \/ EditLesson \/ DeleteLesson \/ UploadedFile

SpecLessons == Taught /\ [][NextLessons]_vars

\* Enrollment with the two steps of enroll interleaved.
NextConcurrent ==
    \/ Signup \/ Login \/ Logout
    \/ EnrollQuery \/ EnrollCommit \/ Unenroll \/ CourseDetail

SpecConcurrent == Taught /\ [][NextConcurrent]_vars

\* ------------------------------------------------------------------- claims
Owns(k, course_id) ==
    /\ Exists(courses, course_id)
    /\ session[k].user_id = Get(courses, course_id).teacher_id

LessonsOf(course_id) == {l \in lessons : l.course_id = course_id}
FilesOf(lesson_ids) == {f \in lesson_files : f.lesson_id \in lesson_ids}
Stored(filename) == \E u \in uploads : u.name = filename
PairRows(student_id, course_id) ==
    {e \in enrollments : e.student_id = student_id /\ e.course_id = course_id}

\* C1: delete_course by the owning teacher succeeds in every reachable state
\* and leaves no course c, no lesson of c, no file row or stored bytes of those
\* lessons and no enrollment in c, so no student's enrolled ids contain c.
C1_DeleteCascades ==
    [][\A k \in Clients, c \in CourseIds :
          (Owns(k, c) /\ session[k].user_role = "teacher" /\ delete_course(k, c)) =>
              /\ resp'.line = 230
              /\ ~ Exists(courses, c)'
              /\ LessonsOf(c)' = {}
              /\ \A f \in FilesOf({l.id : l \in LessonsOf(c)}) :
                     f \notin lesson_files' /\ ~ Stored(f.filename)'
              /\ \A e \in enrollments' : e.course_id # c
              /\ \A u \in users : c \notin enrolled_ids(u.id)']_vars

\* C2: enroll by a student on an existing course leaves exactly one row for the
\* pair; when the pair is already enrolled (the second of two calls) the call
\* answers with the same redirect as a first enrollment and changes no state.
C2_EnrollIdempotent ==
    [][\A k \in Clients, c \in CourseIds :
          (/\ session[k].user_role = "student"
           /\ Exists(courses, c)
           /\ enroll(k, c)) =>
              /\ Cardinality(PairRows(session[k].user_id, c)') = 1
              /\ resp'.status = 302 /\ resp'.line \in {262, 268}
              /\ is_enrolled(session[k].user_id, c) =>
                     /\ resp'.line = 262
                     /\ UNCHANGED <<db, session, uploads, inflight>>]_vars

\* C2 witness: a student's enroll request has just answered from the
\* already-enrolled branch, and the pair has one row.
C2_Witness ==
    /\ resp.line = 262
    /\ \E k \in Clients, c \in CourseIds :
           /\ session[k].user_role = "student"
           /\ Exists(courses, c)
           /\ Cardinality(PairRows(session[k].user_id, c)) = 1

\* C5: enroll by a student for a course id that does not exist answers 404 and
\* creates no row, and every enrollment's course_id names an existing course.
C5_EnrollNotFound ==
    /\ [](\A e \in enrollments : Exists(courses, e.course_id))
    /\ [][\A k \in Clients, c \in CourseIds :
             (/\ session[k].user_role = "student"
              /\ ~ Exists(courses, c)
              /\ enroll(k, c)) =>
                 resp'.status = 404 /\ UNCHANGED enrollments]_vars

\* C6: course_detail hands the roster of the course to the teacher who owns it
\* and an empty roster to every other logged-in caller.
C6_RosterOwnerOnly ==
    [][\A k \in Clients, c \in CourseIds :
          (session[k].user_id # 0 /\ Exists(courses, c) /\ course_detail(k, c)) =>
              resp'.students =
                  IF session[k].user_role = "teacher" /\ Owns(k, c)
                  THEN roster(c) ELSE <<>>]_vars

\* The line of a failed authorization check.
Refused == resp'.line \in {48, 51, 208, 226, 333, 364, 382}

\* C3: a caller who is not the teacher of course c cannot change it: edit_course,
\* delete_course and add_lesson on c, and edit_lesson and delete_lesson on a
\* lesson of c, answer with the redirect of the failed authorization check and
\* leave every table and the upload directory as they were.
C3_OnlyOwnerMutates ==
    [][\A k \in Clients, c \in CourseIds :
          (Exists(courses, c) /\ ~ Owns(k, c)) =>
              \/ Refused /\ UNCHANGED <<db, uploads>>
              \/ ~ \/ \E t \in Titles, d \in Descriptions :
                          edit_course(k, "POST", c, t, d)
                   \/ edit_course(k, "GET", c, "", "")
                   \/ delete_course(k, c)
                   \/ \E t \in LessonTitles, x \in Contents, f \in FileInputs :
                          add_lesson(k, "POST", c, t, x, f)
                   \/ add_lesson(k, "GET", c, "", None, NoFile)
                   \/ \E l \in LessonsOf(c) :
                          \/ \E t \in LessonTitles, x \in Contents :
                                 edit_lesson(k, "POST", l.id, t, x)
                          \/ edit_lesson(k, "GET", l.id, "", None)
                          \/ delete_lesson(k, l.id)]_vars

\* C3 witness: a teacher who does not own the course of an existing lesson with
\* a stored file has just been refused its deletion.
C3_Witness ==
    /\ resp.line = 382
    /\ \E k \in Clients, l \in lessons :
           /\ session[k].user_role = "teacher"
           /\ ~ Owns(k, l.course_id)
           /\ \E f \in lesson_files : f.lesson_id = l.id /\ Stored(f.filename)

RoleTyped ==
    /\ \A c \in courses : \E u \in users : u.id = c.teacher_id /\ u.role = "teacher"
    /\ \A e \in enrollments : \E u \in users : u.id = e.student_id /\ u.role = "student"

\* C4: every course's teacher_id names a user whose role is teacher and every
\* enrollment's student_id names a user whose role is student; create_course by
\* a caller who is not a teacher and enroll by a caller who is not a student
\* are turned away and change no table.
C4_RoleTypedReferences ==
    /\ []RoleTyped
    /\ [][\A k \in Clients :
             /\ session[k].user_role # "teacher" =>
                    \A m \in Methods, t \in Titles \cup {""}, d \in Descriptions \cup {""} :
                        create_course(k, m, t, d) =>
                            resp'.line \in {48, 51} /\ UNCHANGED db
             /\ session[k].user_role # "student" =>
                    \A c \in CourseIds :
                        enroll(k, c) => resp'.line \in {39, 257} /\ UNCHANGED db]_vars

\* C4 witness: with a course and an enrollment in the tables, a logged-in
\* caller who is not a student has just been turned away by enroll.
C4_Witness ==
    /\ resp.line = 257
    /\ courses # {}
    /\ enrollments # {}
    /\ \E k \in Clients : session[k].user_id # 0 /\ session[k].user_role # "student"

\* C7: a successful delete_lesson leaves no row of the lesson, no file row of
\* it and no bytes under the names of its files, so a download of any of those
\* names answers 404.
C7_DeleteLessonRemovesFile ==
    [][\A k \in Clients, l \in LessonIds :
          (Exists(lessons, l) /\ Owns(k, Get(lessons, l).course_id)
             /\ session[k].user_role = "teacher" /\ delete_lesson(k, l)) =>
              /\ resp'.line = 397
              /\ resp'.removed = {f.filename : f \in {x \in FilesOf({l}) : Stored(x.filename)}}
              /\ ~ Exists(lessons, l)'
              /\ FilesOf({l})' = {}
              /\ \A f \in FilesOf({l}) :
                     /\ ~ Stored(f.filename)'
                     /\ send_from_directory(f.filename)'.status = 404]_vars

\* C7 witness: a delete_lesson has just removed the stored file of the lesson
\* it deleted, and none of the removed names is stored any more.
C7_Witness ==
    /\ resp.line = 397
    /\ resp.removed # {}
    /\ \A n \in resp.removed : send_from_directory(n).status = 404

\* C8: no two enrollment rows share student_id and course_id, also when the
\* query and the insert of two enroll requests for the pair are interleaved.
C8_UniquePair ==
    \A e1, e2 \in enrollments :
        (e1.student_id = e2.student_id /\ e1.course_id = e2.course_id) => e1 = e2

\* C9: add_lesson by the owning teacher with the content field absent succeeds
\* and stores a lesson whose content is absent.
C9_ContentOptional ==
    [][\A k \in Clients, c \in CourseIds, t \in LessonTitles, f \in FileInputs :
          (Owns(k, c) /\ session[k].user_role = "teacher"
             /\ add_lesson(k, "POST", c, t, None, f)) =>
              /\ resp'.line = 353
              /\ \E l \in lessons' \ lessons : l.course_id = c /\ l.content = None]_vars

\* C10: every file row's filename has stored bytes.
C10_FileRowsHaveBytes ==
    \A f \in lesson_files : Stored(f.filename)

====
